---- MODULE Spec2Model ----
(***************************************************************************)
(* Model of docsync (src/docsync/docsync.py): one Docsync session object   *)
(* with its fields start, end and funcs, and its three public methods      *)
(* search, search_hdr and docexport.                                       *)
(*                                                                         *)
(* A text is a sequence of one-character strings.  Offsets are Python's    *)
(* zero-based offsets: the character at offset i is text[i + 1].           *)
(***************************************************************************)
EXTENDS Integers, Sequences, FiniteSets, TLC

\* ------------------------------------------------------------------ bounds

\* A text given to search / search_hdr is made of at most MaxPieces pieces.
MaxPieces == 2

\* ------------------------------------------------------- character classes

\* Python's None for the optional offsets start and end (offsets are >= 0).
None == -1

\* The characters of class \s that occur in the texts.
Space == {" ", "\n"}

\* The characters of class \w that occur in the texts.
Word == {"c", "d", "e", "f", "g", "i", "m", "n", "o", "p", "r", "t", "v", "x"}

\* The character at offset i of text t ("" past the end: no character).
At(t, i) == IF i >= 0 /\ i < Len(t) THEN t[i + 1] ELSE ""

\* t[i:j] of Python.
Slice(t, i, j) == IF j <= i THEN <<>> ELSE SubSeq(t, i + 1, j)

\* Whether the literal lit occurs in t at offset i.
LitAt(t, i, lit) ==
    /\ i + Len(lit) <= Len(t)
    /\ \A k \in 1..Len(lit) : t[i + k] = lit[k]

\* The least element of a non-empty set of offsets.
MinOf(S) == CHOOSE x \in S : \A y \in S : x <= y

\* The least element of a set of offsets, or None when it is empty.
MinOrNone(S) == IF S = {} THEN None ELSE MinOf(S)

\* The end of the longest run of characters of class C starting at offset i
\* (a greedy C* ).
RECURSIVE Run(_, _, _)
Run(t, i, C) == IF At(t, i) \in C THEN Run(t, i + 1, C) ELSE i

\* The two tags.
DocImport == <<"d", "o", "c", "i", "m", "p", "o", "r", "t">>
DocExport == <<"d", "o", "c", "e", "x", "p", "o", "r", "t">>
\* The token closing the tag comment and opening the docstring.
TagClose == <<"*", "/", "/", "*", "*">>

\* ------------------------------------------------------------------ func_re

\* The pieces of the pattern.  Each takes the offset reached so far (None
\* once the match has failed) and gives the offset after the piece, or None.

\* A literal.
Lit(t, i, lit) == IF i # None /\ LitAt(t, i, lit) THEN i + Len(lit) ELSE None

\* A greedy class+ : at least one character of C, then as many as there are.
Plus(t, i, C) == IF i # None /\ At(t, i) \in C THEN Run(t, i + 1, C) ELSE None

\* A greedy class* .
Star(t, i, C) == IF i # None THEN Run(t, i, C) ELSE None

\* (?:docimport|docexport)
Tag(t, i) ==
    IF Lit(t, i, DocImport) # None THEN Lit(t, i, DocImport)
    ELSE Lit(t, i, DocExport)

\* [*]?
OptStar(t, i) == IF i # None /\ At(t, i) = "*" THEN i + 1 ELSE i

\* The opening of func_re from offset s: "/", stars, space, the bracketed tag
\* with its identifier, space, and the token closing the tag comment.  Every
\* quantifier here is followed by a character outside its class, so its
\* greedy run is the only way to match.
OpenerEnd(t, s) ==
    Lit(t,
        Plus(t,
             Lit(t,
                 Star(t,
                      Plus(t,
                           Tag(t,
                               Lit(t,
                                   Plus(t, Plus(t, Lit(t, s, <<"/">>), {"*"}), Space),
                                   <<"[">>)),
                           Space),
                      Word),
                 <<"]">>),
             Space),
        TagClose)

\* A failed match.
NoMatch == [ok |-> FALSE, end |-> 0, name |-> <<>>]

\* The signature's captured name, given n0, the offset where it starts when
\* every quantifier before it runs to its longest, and w1, the offset after
\* the first word: the name is the word at n0 when "(" follows it; the only
\* other way to match is the first word giving back its last character to
\* the name, when "(" follows the first word directly.
NameSpan(t, h, n0, w1) ==
    IF Lit(t, Plus(t, n0, Word), <<"(">>) # None
    THEN [ok |-> TRUE, from |-> n0, to |-> Plus(t, n0, Word)]
    ELSE IF w1 # None /\ At(t, w1) = "(" /\ w1 - h >= 2
         THEN [ok |-> TRUE, from |-> w1 - 1, to |-> w1]
    ELSE [ok |-> FALSE, from |-> 0, to |-> 0]

\* The head of the signature from offset h: the return type, optional space,
\* an optional star, optional space, the captured name and "(".
SigHead(t, h) ==
    NameSpan(t, h,
             Star(t, OptStar(t, Star(t, Plus(t, h, Word), Space)), Space),
             Plus(t, h, Word))

\* The first ")" at or after offset i (the lazy .*? before it), or None.
FirstParen(t, i) == MinOrNone({r \in i..(Len(t) - 1) : At(t, r) = ")"})

\* The match whose signature's name is sg and whose ")" is at offset r: the
\* optional ";" is taken when it is there.
MatchEnd(t, sg, r) ==
    IF r = None THEN NoMatch
    ELSE [ok |-> TRUE,
          end |-> IF At(t, r + 1) = ";" THEN r + 2 ELSE r + 1,
          name |-> Slice(t, sg.from, sg.to)]

\* The rest of the signature after its head.
SigRest(t, sg) ==
    IF sg.ok THEN MatchEnd(t, sg, FirstParen(t, sg.to + 1)) ELSE NoMatch

\* The closing stars, "/" and line feed of the docstring.
CloseDoc == <<"/", "\n">>

\* The rest of func_re once the docstring body ends at offset k: the closing
\* of the docstring, then the signature.
TailAt(t, k) == SigRest(t, SigHead(t, Lit(t, Plus(t, k, {"*"}), CloseDoc)))

\* The match that ends the docstring body at the first of the offsets S.
FirstTail(t, S) == IF S = {} THEN NoMatch ELSE TailAt(t, MinOf(S))

\* The lazy docstring body from offset p: it ends at the first offset at
\* which the rest of the pattern matches.
BodyFrom(t, p) ==
    IF p = None THEN NoMatch
    ELSE FirstTail(t, {k \in p..(Len(t) - 1) : TailAt(t, k).ok})

\* func_re matched at offset s exactly.
MatchAt(t, s) == BodyFrom(t, OpenerEnd(t, s))

\* func_re.finditer(text): the matches from offset pos on, left to right,
\* each the leftmost match at or after the end of the previous one; one Func
\* per match.
RECURSIVE Finditer(_, _)

\* FuncThenRest as it would be were the scan resumed one character after the
\* start of the match instead of at its end.
FuncThenRest_Overlap(t, s, m) ==
    <<[name |-> m.name, span |-> <<s, m.end>>, substring |-> Slice(t, s, m.end)]>>
    \o Finditer(t, s + 1)

\* The Func of match m at offset s, then the matches after it.
FuncThenRest(t, s, m) ==
    <<[name |-> m.name, span |-> <<s, m.end>>, substring |-> Slice(t, s, m.end)]>>
    \o Finditer(t, m.end)

\* The match at the first of the offsets S at which there is one.
FirstMatch(t, S) ==
    IF S = {} THEN <<>> ELSE FuncThenRest(t, MinOf(S), MatchAt(t, MinOf(S)))

Finditer(t, pos) == FirstMatch(t, {s \in pos..(Len(t) - 1) : MatchAt(t, s).ok})

\* ----------------------------------------------------------------- strings

\* text.split('\n') from offset i on: the piece up to the next line feed,
\* then the pieces after it; the piece after the last line feed ends the list
\* (it is empty when the text ends with a line feed).
RECURSIVE SplitFrom(_, _)
SplitFrom(t, i) ==
    LET S == {p \in i..(Len(t) - 1) : At(t, p) = "\n"}
    IN  IF S = {} THEN <<Slice(t, i, Len(t))>>
        ELSE <<Slice(t, i, MinOf(S))>> \o SplitFrom(t, MinOf(S) + 1)

\* Split as it would be were the empty pieces dropped.
Split_NoEmpty(t) == SelectSeq(SplitFrom(t, 0), LAMBDA line : line # <<>>)

\* text.split('\n'): one more piece than there are line feeds (the empty
\* text gives one empty line).
Split(t) == SplitFrom(t, 0)

\* sep.join(parts).
RECURSIVE Join(_, _)
Join(sep, parts) ==
    IF parts = <<>> THEN <<>>
    ELSE IF Len(parts) = 1 THEN parts[1]
    ELSE parts[1] \o sep \o Join(sep, Tail(parts))

\* Replace as it would be were only the first occurrence replaced.
Replace_First(s, old, new) ==
    IF \A i \in 0..(Len(s) - 1) : ~LitAt(s, i, old) THEN s
    ELSE Slice(s, 0, MinOf({i \in 0..(Len(s) - 1) : LitAt(s, i, old)}))
         \o new
         \o Slice(s, MinOf({i \in 0..(Len(s) - 1) : LitAt(s, i, old)}) + Len(old), Len(s))

\* s.replace(old, new): a left-to-right scan that replaces each occurrence of
\* old it meets and resumes after it.
RECURSIVE Replace(_, _, _)
Replace(s, old, new) ==
    IF s = <<>> THEN <<>>
    ELSE IF LitAt(s, 0, old)
         THEN new \o Replace(Slice(s, Len(old), Len(s)), old, new)
    ELSE <<Head(s)>> \o Replace(Tail(s), old, new)

\* line.startswith(prefix).
StartsWith(line, prefix) == LitAt(line, 0, prefix)

\* The literal search_hdr looks for at the start of a line.
Endif == <<"#", "e", "n", "d", "i", "f">>

\* -------------------------------------------------------------------- texts

\* A well-formed block tagged docimport whose signature ends with ";".
BlockImport ==
    <<"/", "*", "\n", "[", "d", "o", "c", "i", "m", "p", "o", "r",
      "t", " ", "f", "]", "\n", "*", "/", "/", "*", "*", "d", "*",
      "/", "\n", "v", " ", "f", "(", ")", ";">>

\* A well-formed block tagged docexport: a docstring closed by two stars, a
\* pointer return type, a parameter, and no ";".
BlockExport ==
    <<"/", "*", "*", "\n", "[", "d", "o", "c", "e", "x", "p", "o",
      "r", "t", " ", "g", "]", "\n", "*", "/", "/", "*", "*", "\n",
      "*", "*", "/", "\n", "c", " ", "*", "g", "(", "x", ")">>

\* A tag comment with an empty identifier whose docstring is never closed.
Unclosed ==
    <<"/", "*", "\n", "[", "d", "o", "c", "i", "m", "p", "o", "r",
      "t", " ", "]", "\n", "*", "/", "/", "*", "*">>

\* An include-guard closer on a line of its own.
EndifLine == <<"#", "e", "n", "d", "i", "f", "\n">>

\* The well-formed blocks.
Blocks == {BlockImport, BlockExport}

\* The pieces a text is made of: the docimport block on lines of its own, the
\* docexport block with no line feed after it, the #endif line, and the
\* unclosed tag comment.
Pieces == {BlockImport \o <<"\n">>, BlockExport, EndifLine, Unclosed}

\* The texts: every concatenation of at most MaxPieces pieces (the empty text
\* included).
Texts ==
    {Join(<<>>, ps) : ps \in UNION {[1..n -> Pieces] : n \in 0..MaxPieces}}

\* The values of output_type: the default, the documented other one, and one
\* that is neither.
OutputTypes == {"lines", "joined", "other"}

\* func_re.finditer over each text, tabulated (merging with the empty
\* function makes the table explicit, so that it is computed once).
Matches == [t \in Texts |-> Finditer(t, 0)] @@ <<>>

\* ------------------------------------------------------------------ session

VARIABLES
    start,      \* self.start: None, or an offset
    end,        \* self.end: None, or an offset
    funcs,      \* self.funcs: the Func records of the last search
    hasFuncs,   \* whether the attribute self.funcs exists
    op,         \* the last method called on the session
    arg,        \* its argument
    ret,        \* the value it returned
    raised      \* whether it raised instead of returning

vars == <<start, end, funcs, hasFuncs, op, arg, ret, raised>>

\* Docsync.__init__: start and end are None; funcs is not created.
Init ==
    /\ start = None
    /\ end = None
    /\ funcs = <<>>
    /\ hasFuncs = FALSE
    /\ op = "__init__"
    /\ arg = <<>>
    /\ ret = <<>>
    /\ raised = FALSE

\* The loop of search over the matches: self.start is set at the first match
\* met while it is None, and every match is appended.
RECURSIVE SearchLoop(_, _, _)
SearchLoop(ms, st, fs) ==
    IF ms = <<>> THEN [start |-> st, funcs |-> fs]
    ELSE SearchLoop(Tail(ms),
                    IF st = None THEN Head(ms).span[1] ELSE st,
                    Append(fs, Head(ms)))

\* SearchEnd as it would be were self.end set like self.start, only while it
\* is None.
SearchEnd_OnlyOnce(ms, en) ==
    IF ms # <<>> /\ en = None THEN ms[Len(ms)].span[2] ELSE en

\* The end offset search leaves in self.end: that of the last match when
\* there is one, the old value otherwise.
SearchEnd(ms, en) == IF ms # <<>> THEN ms[Len(ms)].span[2] ELSE en

\* The fields search leaves and the count it returns, given the matches ms.
SearchOver(ms, st, en) ==
    [start |-> SearchLoop(ms, st, <<>>).start,
     end   |-> SearchEnd(ms, en),
     funcs |-> SearchLoop(ms, st, <<>>).funcs,
     num   |-> Len(SearchLoop(ms, st, <<>>).funcs)]

\* Docsync.search as a function of the fields it reads.
SearchResult(st, en, text) == SearchOver(Matches[text], st, en)

\* The fields of the session after a search whose result is r.
SetFields(r) ==
    /\ start' = r.start
    /\ end' = r.end
    /\ funcs' = r.funcs
    /\ hasFuncs' = TRUE

\* A call that returned value v.
Returned(name, a, v) ==
    /\ op' = name
    /\ arg' = a
    /\ ret' = v
    /\ raised' = FALSE

\* Docsync.search(text).
Search(text) ==
    \E r \in {SearchResult(start, end, text)} :
        SetFields(r) /\ Returned("search", text, r.num)

\* The loop of _index_str: one entry per line, keyed by the running count of
\* characters, each line counted with its line feed.
RECURSIVE IndexLoop(_, _, _, _)
IndexLoop(lines, line_num, index_count, index_dict) ==
    IF line_num >= Len(lines) THEN index_dict
    ELSE IndexLoop(lines, line_num + 1,
                   index_count + Len(lines[line_num + 1]) + 1,
                   (index_count :> <<line_num, lines[line_num + 1]>>) @@ index_dict)

\* Docsync._index_str(text).
IndexStr(text) == IndexLoop(Split(text), 0, 0, <<>>)

\* index_dict.get(key, (0, 0))[0].
GetLine(index_dict, key) ==
    IF key \in DOMAIN index_dict THEN index_dict[key][1] ELSE 0

\* EndifLoop as it would be were the lines examined first to last.
EndifLoop_Forward(lines, line_num) ==
    IF \A k \in 1..Len(lines) : ~StartsWith(lines[k], Endif) THEN <<0, 0>>
    ELSE <<MinOf({k \in 1..Len(lines) : StartsWith(lines[k], Endif)}) - 2,
           MinOf({k \in 1..Len(lines) : StartsWith(lines[k], Endif)}) - 2>>

\* The fallback loop of search_hdr over lines[::-1], line_num counting down
\* from the last line: the pair for the first line met that starts with
\* #endif, and (0, 0) when the loop runs out.
RECURSIVE EndifLoop(_, _)
EndifLoop(lines, line_num) ==
    IF line_num < 0 THEN <<0, 0>>
    ELSE IF StartsWith(lines[line_num + 1], Endif)
         THEN <<line_num - 1, line_num - 1>>
    ELSE EndifLoop(lines, line_num - 1)

\* The replacement range when there are matches: the lines index_dict gives
\* for self.start and for self.end + 1.
MatchRange(index_dict, r) ==
    <<GetLine(index_dict, r.start), GetLine(index_dict, r.end + 1)>>

\* The replacement range when there is no match.
EndifRange(lines) == EndifLoop(lines, Len(lines) - 1)

\* _index_str and the fallback loop over each text, tabulated.
Index == [t \in Texts |-> IndexStr(t)] @@ <<>>
Fallback == [t \in Texts |-> EndifRange(Split(t))] @@ <<>>

\* What search_hdr returns once its search has returned r.
HdrResult(r, text) ==
    IF r.num # 0 THEN MatchRange(Index[text], r) ELSE Fallback[text]

\* Docsync.search_hdr(text).
SearchHdr(text) ==
    \E r \in {SearchResult(start, end, text)} :
        SetFields(r) /\ Returned("search_hdr", text, HdrResult(r, text))

\* The string docexport makes of one record.
DocexportStr(item) == Replace(item.substring, DocImport, DocExport) \o <<";">>

\* The loop of docexport: the list out, one string per record, in order.
RECURSIVE ExportList(_)
ExportList(fs) ==
    IF fs = <<>> THEN <<>>
    ELSE <<DocexportStr(Head(fs))>> \o ExportList(Tail(fs))

\* The two line feeds between the blocks.
BlankLine == <<"\n", "\n">>

\* "\n\n".join(out) for the records fs.
Joined(fs) == Join(BlankLine, ExportList(fs))

\* What docexport returns for the records fs.
DocexportResult(fs, output_type) ==
    IF output_type = "lines" THEN Split(Joined(fs)) ELSE Joined(fs)

\* A call that raised instead of returning.
Raised(name, a) ==
    /\ op' = name
    /\ arg' = a
    /\ ret' = <<>>
    /\ raised' = TRUE

\* Docsync.docexport(output_type): reading self.funcs raises AttributeError
\* when no search has created it.
Docexport(output_type) ==
    /\ IF hasFuncs
       THEN Returned("docexport", output_type, DocexportResult(funcs, output_type))
       ELSE Raised("docexport", output_type)
    /\ UNCHANGED <<start, end, funcs, hasFuncs>>

Next ==
    \/ \E text \in Texts : Search(text)
    \/ \E text \in Texts : SearchHdr(text)
    \/ \E output_type \in OutputTypes : Docexport(output_type)

Spec == Init /\ [][Next]_vars

\* ------------------------------------------------- what the claims speak of

\* The last call was a scan of a text: search, or the search search_hdr makes.
Scanned == op \in {"search", "search_hdr"}

\* The number of well-formed blocks a text contains: the offsets at which one
\* of the blocks stands.
NumBlocks(t) ==
    Cardinality({i \in 0..(Len(t) - 1) : \E b \in Blocks : LitAt(t, i, b)})

\* The offsets of the line feeds of t, and the offsets at which its lines
\* start.
LineFeeds(t) == {i \in 0..(Len(t) - 1) : At(t, i) = "\n"}
LineStarts(t) == {0} \cup {i + 1 : i \in LineFeeds(t)}

\* The zero-based number of the line that holds offset i: the line feeds
\* before it.
LineNumber(t, i) == Cardinality({q \in LineFeeds(t) : q < i})

\* The number of the line whose first character is at offset i, 0 when no
\* line starts there.
LineStartingAt(t, i) == IF i \in LineStarts(t) THEN LineNumber(t, i) ELSE 0

\* The numbers of the lines of t that start with #endif.
EndifLines(t) ==
    {LineNumber(t, i) : i \in {j \in LineStarts(t) : LitAt(t, j, Endif)}}

\* The greatest of a non-empty set of numbers.
MaxOf(S) == CHOOSE x \in S : \A y \in S : y <= x

\* The offsets of substring s that lie k characters into an occurrence of
\* docimport.
InImport(s, k) == {i \in k..(Len(s) - 1) : LitAt(s, i - k, DocImport)}

\* The block a record's substring is rendered as: character by character the
\* substring, with the "im" of each docimport turned into "ex", and one ";"
\* after it.
ExpectedBlock(s) ==
    [i \in 1..(Len(s) + 1) |->
        IF i = Len(s) + 1 THEN ";"
        ELSE IF (i - 1) \in InImport(s, 3) THEN "e"
        ELSE IF (i - 1) \in InImport(s, 4) THEN "x"
        ELSE s[i]]

\* The offset in the joined string at which the block of record k starts:
\* each block before it, and the two line feeds after each.
RECURSIVE BlockOffset(_, _)
BlockOffset(fs, k) ==
    IF k = 1 THEN 0
    ELSE BlockOffset(fs, k - 1) + Len(fs[k - 1].substring) + 1 + 2

\* The length of the joined string.
JoinedLen(fs) ==
    IF fs = <<>> THEN 0
    ELSE BlockOffset(fs, Len(fs)) + Len(fs[Len(fs)].substring) + 1

\* -------------------------------------------------------------------- claims

\* C1: whenever the session's records are non-empty, self.start is the start
\* offset of the first record.
C1_StartIsFirstRecord ==
    (hasFuncs /\ funcs # <<>>) => start = funcs[1].span[1]

\* C2 as stated: once start and end are set, no later call changes either.
C2_WriteOnceBoth ==
    [][(start # None /\ end # None) => (start' = start /\ end' = end)]_vars

\* C2 as amended: once start is set no later call changes it; end is left
\* alone by a scan that finds no match and is overwritten, by every scan that
\* finds matches, with the end offset of that scan's last match.
C2_StartOnceEndLast ==
    [][/\ start # None => start' = start
       /\ funcs' = <<>> => end' = end
       /\ funcs' # <<>> => end' = funcs'[Len(funcs')].span[2]]_vars

\* C2: a later scan has found matches after start was set: start is no longer
\* the first record's, end is the last record's.
C2_Witness ==
    /\ Scanned
    /\ funcs # <<>>
    /\ start # None
    /\ start # funcs[1].span[1]
    /\ end = funcs[Len(funcs)].span[2]

\* C3: after a scan of a text with N well-formed blocks there are N records
\* (search returns N, the length of the records), each with a non-empty span
\* that holds the record's substring in the text, in left-to-right order and
\* without overlap.
C3_ScanFindsBlocksInOrder ==
    Scanned =>
        /\ Len(funcs) = NumBlocks(arg)
        /\ op = "search" => ret = Len(funcs)
        /\ \A i \in 1..Len(funcs) :
            /\ 0 <= funcs[i].span[1]
            /\ funcs[i].span[1] < funcs[i].span[2]
            /\ funcs[i].span[2] <= Len(arg)
            /\ funcs[i].substring = Slice(arg, funcs[i].span[1], funcs[i].span[2])
        /\ \A i \in 1..(Len(funcs) - 1) : funcs[i].span[2] <= funcs[i + 1].span[1]

\* C3: a search of a text with two blocks has returned 2.
C3_Witness ==
    /\ op = "search"
    /\ NumBlocks(arg) = 2
    /\ ret = 2

\* C4: when search_hdr finds matches in the header text, it returns the
\* number of the line that starts at the first match's start offset and the
\* number of the line that starts one past the last match's end offset (0 for
\* an offset at which no line starts).
C4_RangeOfThisHeader ==
    (op = "search_hdr" /\ funcs # <<>>) =>
        ret = <<LineStartingAt(arg, funcs[1].span[1]),
                LineStartingAt(arg, funcs[Len(funcs)].span[2] + 1)>>

C6_EndOfTextResolves ==
    (op = "search_hdr" /\ funcs # <<>> /\ funcs[Len(funcs)].span[2] = Len(arg)) =>
        /\ (end + 1) \in DOMAIN Index[arg]
        /\ ret[2] = Index[arg][end + 1][1]

\* C7: no call on the session raises.
C7_NoCallRaises == ~raised

\* C8: docexport("joined") is the blocks of the records of the last scan, in
\* order, two line feeds between consecutive blocks; each block is the
\* record's substring with docimport turned into docexport and one ";"
\* appended, so the substring itself plus ";" when it holds no docimport.
C8_JoinedIsTaggedBlocks ==
    (op = "docexport" /\ ~raised /\ arg = "joined") =>
        /\ Len(ret) = JoinedLen(funcs)
        /\ \A k \in 1..Len(funcs) :
            /\ Slice(ret, BlockOffset(funcs, k),
                     BlockOffset(funcs, k) + Len(funcs[k].substring) + 1)
                   = ExpectedBlock(funcs[k].substring)
            /\ InImport(funcs[k].substring, 0) = {} =>
                   Slice(ret, BlockOffset(funcs, k),
                         BlockOffset(funcs, k) + Len(funcs[k].substring) + 1)
                       = funcs[k].substring \o <<";">>
        /\ \A k \in 2..Len(funcs) :
            Slice(ret, BlockOffset(funcs, k) - 2, BlockOffset(funcs, k)) = <<"\n", "\n">>

\* C8: docexport("joined") has run on two records, the first tagged
\* docimport, the second docexport.
C8_Witness ==
    /\ op = "docexport"
    /\ ~raised
    /\ arg = "joined"
    /\ Len(funcs) = 2
    /\ InImport(funcs[1].substring, 0) # {}
    /\ InImport(funcs[2].substring, 0) = {}

\* C9: the lines docexport("lines") returns, joined with a line feed, are the
\* joined string of the same records, and every other output_type returns the
\* joined string.
C9_LinesRoundTrip ==
    (op = "docexport" /\ ~raised) =>
        IF arg = "lines" THEN Join(<<"\n">>, ret) = Joined(funcs)
        ELSE ret = Joined(funcs)

\* C9: docexport("lines") has returned the lines of two records.
C9_Witness ==
    /\ op = "docexport"
    /\ ~raised
    /\ arg = "lines"
    /\ Len(funcs) = 2
    /\ Len(ret) > 2

\* C10: every pair search_hdr returns is a half-open line range of the header
\* text: 0 <= start line <= end line <= number of lines.
C10_ValidLineRange ==
    op = "search_hdr" =>
        /\ 0 <= ret[1]
        /\ ret[1] <= ret[2]
        /\ ret[2] <= Cardinality(LineFeeds(arg)) + 1

====
